---- MODULE Spec2Model ----
(***************************************************************************)
(* Model of the c10d CUDA Baton: a host-side controller (Baton) and the    *)
(* device kernel kernel_barrier, which share the two-word pinned buffer    *)
(* comm_ = [abort flag, status].                                           *)
(***************************************************************************)
EXTENDS Integers, FiniteSets, Sequences, TLC

(* ---------------- bounds ---------------- *)
MaxTimeoutMs == 1
NumThreads == 2
MaxAbortCalls == 1
MaxQueueDelayTicks == 2
SleepCountCap == 2

(* ---------------- program constants ---------------- *)
UNKNOWN == 0
RUNNING == 1
TIMED_OUT == 2
ABORTED == 3

NsPerMs == 1000000
SleepNs == 1000000

(* ---------------- derived sets ---------------- *)
Threads == 1..NumThreads

\* the stream the launch kernel_barrier<<<1, 1, 0>>> names: none, which is
\* the default stream
DefaultStream == 0

\* a stream of the stream pool, created non-blocking (it does not synchronise
\* with the default stream)
PoolStream == 1

Streams == {DefaultStream, PoolStream}

\* the clock is observed at half-millisecond granularity
ClockStep == NsPerMs \div 2

\* time that may pass after the kernel has started before the model stops the clock
MaxElapsedNs == (MaxTimeoutMs + 1) * NsPerMs

\* __nanosleep(t) suspends the thread for a duration in [0, 2*t]
SleepDurations == {0, SleepNs, 2 * SleepNs}

\* at::empty does not initialise the buffer: each word holds whatever the
\* allocation held before, an arbitrary int32
UninitValues == {0 - 1, 0, 1, 2, 3}

Terminal(s) == s = TIMED_OUT \/ s = ABORTED

VARIABLES
  registry,       \* BatonRegistry: the names a factory is registered under
  hpc,            \* position of the host in baton(timeout)
  channel,        \* the allocation behind comm_: "none", "live", "failed" or "freed"
  launchErr,      \* the CUDA error state left by the launch
  comm,           \* comm_: [0] abort flag, [1] status
  timeout_ms,     \* timeout_.count(), the kernel's timeout_ms argument
  pc,             \* position of the kernel
  start,          \* kernel local: start
  timeout_ns,     \* kernel local: timeout_ns
  current_value,  \* kernel local: current_value
  now,            \* the device's global timer, ns since construction
  returned,       \* the value of the last status() call ({} before the first)
  activeStream,   \* the caller's active CUDA stream when the Baton is constructed
  work,           \* the caller's next kernel, enqueued on activeStream after construction
  abortCalls,     \* history: number of abort() calls per host thread
  abortEarly,     \* history: the first abort() was issued before the timeout had elapsed
  nAborted,       \* history: number of changes of the status word to ABORTED
  sleepsAfterFlag,   \* history: sleeps completed while the abort flag was 1
  sleepsAfterExpiry, \* history: sleeps completed with more than the timeout elapsed since start
  hostFault,         \* a host call on a released channel has faulted
  abortBeforeStart   \* history: abort() was called before the kernel started

vars == <<registry, hpc, channel, launchErr, comm, timeout_ms, pc, start, timeout_ns, current_value, now,
          returned, activeStream, work, abortCalls, abortEarly, nAborted,
          sleepsAfterFlag, sleepsAfterExpiry, hostFault, abortBeforeStart>>

kernelLocals == <<start, timeout_ns, current_value>>
history == <<abortCalls, abortEarly, nAborted>>
sleeps == <<sleepsAfterFlag, sleepsAfterExpiry>>

\* a history counter, which stops counting at SleepCountCap
Count(n, cond) == IF cond /\ n < SleepCountCap THEN n + 1 ELSE n
caller == <<activeStream, work>>
hostHistory == <<hostFault, abortBeforeStart>>
ctor == <<registry, hpc, channel, launchErr>>

\* number of times the status word changes to ABORTED in a step
CountAborted(old, new) == IF new = ABORTED /\ old # ABORTED THEN 1 ELSE 0

(* ---------------- construction ---------------- *)
\* The state in which baton(timeout) is called. comm holds what the memory
\* that at::empty will hand out holds at that time; C10_REGISTER_CLASS has
\* registered "CUDA" when the CUDA implementation is part of the build.
Init ==
  /\ registry \in {{}, {"CUDA"}}
  /\ hpc = "create"
  /\ channel = "none"
  /\ launchErr = FALSE
  /\ comm \in [0..1 -> UninitValues]
  /\ timeout_ms \in 0..MaxTimeoutMs
  /\ pc = "none"
  /\ start = 0
  /\ timeout_ns = 0
  /\ current_value = 0
  /\ now = 0
  /\ returned = {}
  /\ activeStream \in Streams
  /\ work = "none"
  /\ abortCalls = [t \in Threads |-> 0]
  /\ abortEarly = FALSE
  /\ nAborted = 0
  /\ sleepsAfterFlag = 0
  /\ sleepsAfterExpiry = 0
  /\ hostFault = FALSE
  /\ abortBeforeStart = FALSE

\* Registry::Create(key, args): the factory's object, or null when no
\* factory is registered under key
RegistryCreate(reg, key) == key \in reg

\* BatonRegistry()->Create("CUDA", timeout)
Create ==
  /\ hpc = "create"
  /\ hpc' = IF RegistryCreate(registry, "CUDA") THEN "alloc" ELSE "null_check"
  /\ UNCHANGED <<registry, channel, launchErr, comm, timeout_ms, pc, kernelLocals,
                 now, returned, caller, history, sleeps, hostHistory>>

\* comm_{at::empty({2}, ...).pin_memory()}: throws when the allocation fails
CtorAlloc ==
  /\ hpc = "alloc"
  /\ \E ok \in BOOLEAN :
       /\ channel' = IF ok THEN "live" ELSE "failed"
       /\ hpc' = IF ok THEN "launch" ELSE "failed"
  /\ UNCHANGED <<registry, launchErr, comm, timeout_ms, pc, kernelLocals,
                 now, returned, caller, history, sleeps, hostHistory>>

\* kernel_barrier<<<1, 1, 0>>>(...): enqueues the kernel or leaves an error
CtorLaunch ==
  /\ hpc = "launch"
  /\ \E ok \in BOOLEAN :
       /\ pc' = IF ok THEN "queued" ELSE "none"
       /\ launchErr' = ~ok
  /\ hpc' = "check"
  /\ UNCHANGED <<registry, channel, comm, timeout_ms, kernelLocals,
                 now, returned, caller, history, sleeps, hostHistory>>

\* a launch check that is left out
launch_check_missing(err) == FALSE

\* C10_CUDA_KERNEL_LAUNCH_CHECK(): throws iff the launch left an error
launch_check(err) == err

\* a constructor that synchronises with the kernel it launched
launch_wait_sync(p) == p = "done"

\* the constructor's wait for the kernel at position p: none
launch_wait(p) == TRUE

\* C10_CUDA_KERNEL_LAUNCH_CHECK(); the end of Baton::Baton. A throwing
\* constructor destroys comm_.
CtorCheck ==
  /\ hpc = "check"
  /\ launch_wait(pc)
  /\ IF launch_check(launchErr)
       THEN hpc' = "failed" /\ channel' = "freed"
       ELSE hpc' = "null_check" /\ UNCHANGED channel
  /\ UNCHANGED <<registry, launchErr, comm, timeout_ms, pc, kernelLocals,
                 now, returned, caller, history, sleeps, hostHistory>>

\* a null check that is left out
torch_check_missing(cond) == TRUE

\* TORCH_CHECK(cond, ...): passes iff cond
torch_check(cond) == cond

\* TORCH_CHECK(baton, "Failed to create baton"); return baton
NullCheck ==
  /\ hpc = "null_check"
  /\ hpc' = IF torch_check(channel = "live") THEN "returned" ELSE "failed"
  /\ UNCHANGED <<registry, channel, launchErr, comm, timeout_ms, pc, kernelLocals,
                 now, returned, caller, history, sleeps, hostHistory>>

CtorStep ==
  \/ Create
  \/ CtorAlloc
  \/ CtorLaunch
  \/ CtorCheck
  \/ NullCheck

(* ---------------- host ---------------- *)
\* a store that counts the calls instead of setting the flag
abort_write_incr(c) == [c EXCEPT ![0] = c[0] + 1]

\* a store that flips the flag instead of setting it
abort_write_toggle(c) == [c EXCEPT ![0] = IF c[0] = 1 THEN 0 ELSE 1]

\* abort(): comm_[0] = 1
abort_write(c) == [c EXCEPT ![0] = 1]

TimeoutElapsed == timeout_ms > 0 /\ now >= timeout_ms * NsPerMs

NoAbortYet == \A t \in Threads : abortCalls[t] = 0

\* The Baton can be called by the threads that hold it; a thread that still
\* holds it after another one destroyed it calls into a released channel.
Callable == hpc \in {"returned", "destroyed"} /\ ~hostFault

\* abort() has no check of the channel: on a released channel the store goes
\* through a dangling pointer, which either faults or lands in the released
\* memory
Abort(t) ==
  /\ Callable
  /\ abortCalls[t] < MaxAbortCalls
  /\ IF channel = "live"
       THEN /\ comm' = abort_write(comm)
            /\ UNCHANGED hostFault
       ELSE \E fault \in BOOLEAN :
              /\ hostFault' = fault
              /\ comm' = IF fault THEN comm ELSE abort_write(comm)
  /\ abortCalls' = [abortCalls EXCEPT ![t] = @ + 1]
  /\ abortEarly' = IF NoAbortYet THEN ~TimeoutElapsed ELSE abortEarly
  /\ abortBeforeStart' = (abortBeforeStart \/ (channel = "live" /\ pc = "queued"))
  /\ UNCHANGED <<ctor, timeout_ms, pc, kernelLocals, now, returned, caller, nAborted, sleeps>>

\* a read of the wrong word of comm_
status_read_flag(c) == c[0]

\* status(): static_cast<BatonStatus>(comm_[1].item<int32_t>())
status_read(c) == c[1]

\* a read that clears the word it has read
status_after_clear(c) == [c EXCEPT ![1] = UNKNOWN]

\* comm_ after status(): item() only reads
status_after(c) == c

\* status() has no check of the channel either: on a released channel the
\* read faults or returns whatever the memory holds by then
Status ==
  /\ Callable
  /\ IF channel = "live"
       THEN /\ returned' = {status_read(comm)}
            /\ comm' = status_after(comm)
            /\ UNCHANGED hostFault
       ELSE /\ \E fault \in BOOLEAN :
                 /\ hostFault' = fault
                 /\ IF fault THEN UNCHANGED returned
                             ELSE \E v \in UninitValues : returned' = {v}
            /\ UNCHANGED comm
  /\ UNCHANGED <<ctor, timeout_ms, pc, kernelLocals, now, caller, history, sleeps, abortBeforeStart>>

\* a destructor that releases the kernel before the channel
dtor_write_abort(c) == [c EXCEPT ![0] = 1]

\* comm_ as ~Baton() leaves it: the destructor is defaulted and stores nothing
dtor_write(c) == c

\* ~Baton() = default: destroys comm_, which releases the pinned buffer; it
\* neither stores to the channel nor waits for the kernel
Destroy ==
  /\ hpc = "returned"
  /\ hpc' = "destroyed"
  /\ channel' = "freed"
  /\ comm' = dtor_write(comm)
  /\ UNCHANGED <<registry, launchErr, timeout_ms, pc, kernelLocals, now, returned,
                 caller, history, sleeps, hostHistory>>

(* ---------------- device: kernel_barrier ---------------- *)
\* value[1] = BatonStatus::RUNNING
\* a kernel that initialises both words when it starts
kernel_start_reset(c) == [c EXCEPT ![0] = 0, ![1] = RUNNING]

\* value[1] = BatonStatus::RUNNING
kernel_start_write(c) == [c EXCEPT ![1] = RUNNING]

KernelStart ==
  /\ pc = "queued"
  /\ comm' = kernel_start_write(comm)
  /\ nAborted' = nAborted + CountAborted(comm[1], RUNNING)
  /\ pc' = "timer"
  /\ UNCHANGED <<ctor, timeout_ms, kernelLocals, now, returned, caller, abortCalls, abortEarly, sleeps, hostHistory>>

\* start = global_timer_ns(); timeout_ns = timeout_ms * 1e6
ReadTimer ==
  /\ pc = "timer"
  /\ start' = now
  /\ timeout_ns' = timeout_ms * NsPerMs
  /\ pc' = "poll"
  /\ UNCHANGED <<ctor, comm, timeout_ms, current_value, now, returned, caller, history, sleeps, hostHistory>>

\* an atomic add of 1 instead of 0
atomicAdd_one(c) == [c EXCEPT ![0] = c[0] + 1]

\* an exchange that consumes the flag instead of leaving it
atomicAdd_clear(c) == [c EXCEPT ![0] = 0]

\* atomicAdd(&value[0], 0): the word after the read-modify-write
atomicAdd_zero(c) == [c EXCEPT ![0] = c[0] + 0]

\* current_value = atomicAdd(&value[0], 0)
\* On a released channel the kernel reads released memory, which holds
\* whatever its next owner has stored there.
ReadFlag ==
  /\ pc = "poll"
  /\ IF channel = "live"
       THEN current_value' = comm[0]
       ELSE current_value' \in UninitValues
  /\ comm' = atomicAdd_zero(comm)
  /\ pc' = "test"
  /\ UNCHANGED <<ctor, timeout_ms, start, timeout_ns, now, returned, caller, history, sleeps, hostHistory>>

\* a test against the status value instead of the flag value
FlagSet_status(v) == v = ABORTED

\* an inverted test
FlagSet_inverted(v) == v # 1

\* the flag test of the kernel
FlagSet(v) == v = 1

\* if (current_value == 1) { value[1] = ABORTED; return; }
TestFlag ==
  /\ pc = "test"
  /\ IF FlagSet(current_value)
       THEN /\ comm' = [comm EXCEPT ![1] = ABORTED]
            /\ nAborted' = nAborted + CountAborted(comm[1], ABORTED)
            /\ pc' = "done"
       ELSE /\ pc' = IF timeout_ms > 0 THEN "clock" ELSE "sleep"
            /\ UNCHANGED <<comm, nAborted>>
  /\ UNCHANGED <<ctor, timeout_ms, kernelLocals, now, returned, caller, abortCalls, abortEarly, sleeps, hostHistory>>

\* the elapsed time converted to milliseconds, compared with nanoseconds
Expired_units(n, s, tns) == ((n - s) \div NsPerMs) > tns

\* the operands of the subtraction exchanged
Expired_swapped(n, s, tns) == (s - n) > tns

\* a comparison that includes the boundary
Expired_inclusive(n, s, tns) == (n - s) >= tns

\* (now - start) > timeout_ns
Expired(n, s, tns) == (n - s) > tns

\* now = global_timer_ns(); if ((now - start) > timeout_ns) { value[1] = TIMED_OUT; return; }
CheckTimeout ==
  /\ pc = "clock"
  /\ IF Expired(now, start, timeout_ns)
       THEN /\ comm' = [comm EXCEPT ![1] = TIMED_OUT]
            /\ pc' = "done"
       ELSE /\ pc' = "sleep"
            /\ UNCHANGED comm
  /\ UNCHANGED <<ctor, timeout_ms, kernelLocals, now, returned, caller, history, sleeps, hostHistory>>

\* __nanosleep(1000000)
Sleep ==
  /\ pc = "sleep"
  /\ \E d \in SleepDurations :
       /\ (now + d) - start <= MaxElapsedNs
       /\ now' = now + d
  /\ pc' = "poll"
  /\ sleepsAfterFlag' = Count(sleepsAfterFlag, comm[0] = 1)
  /\ sleepsAfterExpiry' = Count(sleepsAfterExpiry,
         timeout_ms > 0 /\ now' - start > timeout_ms * NsPerMs)
  /\ UNCHANGED <<ctor, comm, timeout_ms, kernelLocals, returned, caller, history, hostHistory>>

(* ---------------- the caller's stream ---------------- *)
\* the stream of the launch in Baton::Baton
launch_stream(active) == DefaultStream

\* the caller enqueues a kernel on its active stream after the construction
EnqueueWork ==
  /\ hpc = "returned"
  /\ work = "none"
  /\ work' = "enqueued"
  /\ UNCHANGED <<ctor, comm, timeout_ms, pc, kernelLocals, now, returned, activeStream, history, sleeps, hostHistory>>

\* a kernel begins once the work enqueued before it on its own stream has
\* finished; a non-blocking stream does not wait for another stream
WorkBegin ==
  /\ work = "enqueued"
  /\ launch_stream(activeStream) = activeStream => pc = "done"
  /\ work' = "begun"
  /\ UNCHANGED <<ctor, comm, timeout_ms, pc, kernelLocals, now, returned, activeStream, history, sleeps, hostHistory>>

(* ---------------- time ---------------- *)
\* the device timer advances on its own, between any two steps
Tick ==
  /\ IF pc = "queued"
       THEN now < MaxQueueDelayTicks * ClockStep
       ELSE (now + ClockStep) - start <= MaxElapsedNs
  /\ pc # "none"
  /\ pc # "done"
  /\ now' = now + ClockStep
  /\ UNCHANGED <<ctor, comm, timeout_ms, pc, kernelLocals, returned, caller, history, sleeps, hostHistory>>

DeviceStep ==
  \/ KernelStart
  \/ ReadTimer
  \/ ReadFlag
  \/ TestFlag
  \/ CheckTimeout
  \/ Sleep

Next ==
  \/ Create
  \/ CtorAlloc
  \/ CtorLaunch
  \/ CtorCheck
  \/ NullCheck
  \/ \E t \in Threads : Abort(t)
  \/ Status
  \/ KernelStart
  \/ ReadTimer
  \/ ReadFlag
  \/ TestFlag
  \/ CheckTimeout
  \/ Sleep
  \/ Tick
  \/ EnqueueWork
  \/ WorkBegin

Spec == Init /\ [][Next]_vars

\* The Baton together with the end of its lifetime: the last reference is
\* dropped at any time after construction, whatever the kernel is doing.
NextLifetime ==
  \/ Next
  \/ Destroy

LifetimeSpec == Init /\ [][NextLifetime]_vars

\* the kernel, once launched, is scheduled and keeps taking steps, time
\* passes, and the host runs baton(timeout) to its end
FairSpec == Spec /\ WF_vars(DeviceStep) /\ WF_vars(Tick) /\ WF_vars(CtorStep)

TypeOK ==
  /\ comm \in [0..1 -> Int]
  /\ registry \subseteq {"CUDA"}
  /\ hpc \in {"create", "alloc", "launch", "check", "null_check", "returned", "failed",
              "destroyed"}
  /\ hostFault \in BOOLEAN
  /\ abortBeforeStart \in BOOLEAN
  /\ channel \in {"none", "live", "failed", "freed"}
  /\ launchErr \in BOOLEAN
  /\ pc \in {"none", "queued", "timer", "poll", "test", "clock", "sleep", "done"}
  /\ timeout_ms \in 0..MaxTimeoutMs
  /\ activeStream \in Streams
  /\ work \in {"none", "enqueued", "begun"}

(* ======================= properties ======================= *)

TwoThreadsAborted ==
  \E t1 \in Threads : \E t2 \in Threads :
    t1 # t2 /\ abortCalls[t1] > 0 /\ abortCalls[t2] > 0

\* C1: when abort() is called before the timeout has elapsed (or at any time
\* with timeout 0) and the kernel keeps taking steps, the status word
\* eventually holds ABORTED.
C1_AbortLeadsToAborted == abortEarly ~> (comm[1] = ABORTED)

\* C2: with a timeout t > 0 and no abort() call, a kernel that keeps taking
\* steps eventually returns with the status word TIMED_OUT.
C2_TimeoutEventually ==
  (timeout_ms > 0 /\ pc = "queued")
    ~> ((pc = "done" /\ comm[1] = TIMED_OUT) \/ ~NoAbortYet)

\* C3: once abort() has been issued before the timeout elapsed, the status
\* word of the started kernel is never TIMED_OUT, whatever the interleaving of
\* the host's store with the kernel's flag read, clock read and sleep.
\* (Stated for the started kernel only, so that the word is one the kernel
\* has written.)
C3_NoTimedOutAfterAbort ==
  (abortEarly /\ timeout_ms > 0 /\ pc \notin {"none", "queued"}) => comm[1] # TIMED_OUT

\* C4: once the status word is TIMED_OUT or ABORTED, no step changes it.
C4_TerminalStable == [][Terminal(comm[1]) => comm'[1] = comm[1]]_vars

\* C5: the status word changes only UNKNOWN -> RUNNING, RUNNING -> TIMED_OUT
\* or RUNNING -> ABORTED.
C5_StatusTransitions ==
  [][comm'[1] # comm[1] =>
       \/ comm[1] = UNKNOWN /\ comm'[1] = RUNNING
       \/ comm[1] = RUNNING /\ Terminal(comm'[1])]_vars

\* C6: construction zeroes both words, so before the kernel's first
\* instruction the status word is UNKNOWN, every status() call has returned
\* UNKNOWN, and the abort flag is 0 unless abort() was called.
C6_ZeroInitialised ==
  (hpc = "returned" /\ pc = "queued") =>
    /\ comm[1] = UNKNOWN
    /\ returned \subseteq {UNKNOWN}
    /\ (NoAbortYet => comm[0] = 0)

\* C7: without an abort() call the kernel never leaves the status word at
\* ABORTED. (Stated for the started kernel, whose status word the kernel
\* itself has written.)
C7_AbortedOnlyAfterAbort ==
  (NoAbortYet /\ pc \notin {"none", "queued"}) => comm[1] # ABORTED

\* C8: abort() is idempotent: an abort() call made after an earlier abort()
\* call changes neither word of comm_ nor anything of the kernel, so N calls
\* leave the same state as one.
C8_AbortIdempotent ==
  [][(abortCalls' # abortCalls /\ ~NoAbortYet) =>
       /\ comm' = comm
       /\ pc' = pc
       /\ kernelLocals' = kernelLocals
       /\ nAborted' = nAborted]_vars

C8_Witness ==
  /\ \E T \in SUBSET Threads : Cardinality(T) >= 2 /\ \A t \in T : abortCalls[t] > 0
  /\ channel = "live"
  /\ pc = "done"
  /\ comm = [i \in 0..1 |-> IF i = 0 THEN 1 ELSE ABORTED]

\* C9 (as claimed): when two host threads have called abort() and the kernel
\* has returned, the status word has changed to ABORTED exactly once and the
\* abort flag is 1.
C9_ExactlyOneAborted ==
  (TwoThreadsAborted /\ pc = "done") => (nAborted = 1 /\ comm[0] = 1)

\* C9 (amended): when two host threads have called abort(), the abort flag is
\* 1 and the status word has changed to ABORTED at most once: exactly once
\* when the kernel returned with ABORTED, never when it returned with
\* TIMED_OUT.
C9_AtMostOneAborted ==
  TwoThreadsAborted =>
    /\ comm[0] = 1
    /\ nAborted <= 1
    /\ (pc = "done" => (nAborted = 1 <=> comm[1] = ABORTED))
    /\ (pc = "done" => (nAborted = 0 <=> comm[1] = TIMED_OUT))

C9_Witness ==
  /\ TwoThreadsAborted
  /\ pc = "done"
  /\ comm[1] = ABORTED
  /\ nAborted = 1

\* C10: with timeout 0, once the kernel has started the status word is
\* RUNNING as long as abort() has not been called.
C10_ZeroTimeoutStaysRunning ==
  (timeout_ms = 0 /\ pc \notin {"none", "queued"} /\ NoAbortYet) => comm[1] = RUNNING

\* a launch on the caller's active stream
launch_stream_active(active) == active

\* C11: a kernel the caller enqueues on its active stream after constructing
\* the Baton does not begin before the status word is TIMED_OUT or ABORTED.
C11_WorkWaitsForBaton == work = "begun" => Terminal(comm[1])

\* C12: each word has one writing domain: the abort flag changes only in an
\* abort() call of the host and is what the kernel reads into current_value;
\* the status word changes only in a step of the kernel and is what status()
\* returns; the host never changes the status word and the kernel never
\* changes the abort flag.
C12_SingleWriter ==
  [][/\ (comm'[0] # comm[0] => (abortCalls' # abortCalls /\ pc' = pc))
     /\ (comm'[1] # comm[1] => (pc' # pc /\ abortCalls' = abortCalls))
     /\ (current_value' # current_value => current_value' = comm[0])
     /\ (returned' # returned => returned' = {comm[1]})]_vars

C12_Witness ==
  /\ ~NoAbortYet
  /\ pc = "done"
  /\ current_value = 1
  /\ comm[1] = ABORTED
  /\ returned = {ABORTED}

\* C13: the abort flag of the allocated channel is 0 or 1 (it starts at 0),
\* changes only from 0 to 1, and once 1 it stays 1.
C13_FlagMonotonic ==
  /\ [](channel = "live" => comm[0] \in {0, 1})
  /\ [][/\ (comm'[0] # comm[0] => (comm[0] = 0 /\ comm'[0] = 1))
        /\ (comm[0] = 1 => comm'[0] = 1)]_vars

\* C14: once the abort flag is 1 the running kernel completes at most one
\* more sleep, and after a sleep completed with the flag at 1 the next poll
\* returns: the kernel is then at its flag read, its flag test with the
\* value 1 in hand, or has returned with a terminal status.
C14_AbortLatency ==
  /\ sleepsAfterFlag <= 1
  /\ (sleepsAfterFlag = 1 =>
        \/ pc = "poll"
        \/ pc = "test" /\ current_value = 1
        \/ pc = "done" /\ Terminal(comm[1]))

C14_Witness ==
  /\ sleepsAfterFlag = 1
  /\ ~NoAbortYet
  /\ pc = "done"
  /\ comm[1] = ABORTED

\* C15 (as claimed): with a timeout t > 0 and no abort() call, once more than
\* t plus one poll interval has passed since the construction the status
\* word is TIMED_OUT.
C15_TimedOutWithinBound ==
  (hpc = "returned" /\ timeout_ms > 0 /\ NoAbortYet
     /\ now > timeout_ms * NsPerMs + SleepNs)
    => comm[1] = TIMED_OUT

\* C15 (amended): with a timeout t > 0 the kernel completes at most one sleep
\* with more than t elapsed since its own start, and after such a sleep its
\* next poll returns with a terminal status.
C15_TimeoutLatencyFromStart ==
  /\ sleepsAfterExpiry <= 1
  /\ (sleepsAfterExpiry = 1 =>
        \/ pc \in {"poll", "test", "clock"}
        \/ pc = "done" /\ Terminal(comm[1]))

C15_Witness ==
  /\ sleepsAfterExpiry = 1
  /\ NoAbortYet
  /\ start > SleepNs \div 2
  /\ pc = "done"
  /\ comm[1] = TIMED_OUT

\* the kernel has started executing
KernelStarted == pc \in {"timer", "poll", "test", "clock", "sleep", "done"}

\* the kernel has read the flag as set and returned through its abort branch
ReturnedOnAbort == pc = "done" /\ current_value = 1

\* C16 (as claimed): every status() call made after an abort() that was
\* issued before the timeout elapsed returns ABORTED. (Stated for the
\* started kernel, whose status word the kernel itself has written.)
C16_AbortedAtEveryCheck ==
  [][(Status /\ abortEarly /\ KernelStarted) => returned' = {ABORTED}]_vars

\* C16 (amended): every status() call made after abort() was called and the
\* kernel has read the flag as set and returned gives ABORTED.
C16_AbortedOnceObserved ==
  [][(Status /\ ~NoAbortYet /\ ReturnedOnAbort) => returned' = {ABORTED}]_vars

C16_Witness ==
  /\ abortEarly
  /\ ReturnedOnAbort
  /\ returned = {ABORTED}

\* C17: with a timeout t > 0 a kernel that has started and keeps taking
\* steps always returns with a terminal status, whether abort() is never
\* called, called once or called at any point.
C17_BoundedWait ==
  (timeout_ms > 0 /\ KernelStarted) ~> (pc = "done" /\ Terminal(comm[1]))

C17_Witness ==
  /\ timeout_ms > 0
  /\ pc = "done"
  /\ comm[1] = TIMED_OUT
  /\ NoAbortYet
  /\ sleepsAfterExpiry = 1

\* C18: construction is all-or-nothing: a returned Baton has an allocated
\* channel and an enqueued kernel and its launch left no error; a failed
\* allocation or a failed launch ends in an error, never in a returned Baton,
\* and leaves no live channel behind.
C18_AllOrNothing ==
  /\ (hpc = "returned" => (channel = "live" /\ pc # "none" /\ ~launchErr))
  /\ (channel = "failed" => hpc = "failed")
  /\ (launchErr => (hpc \in {"check", "failed"} /\ pc = "none"))
  /\ (hpc = "failed" => channel # "live")

C18_Witness ==
  /\ hpc = "failed"
  /\ launchErr
  /\ channel = "freed"

\* C19: baton(timeout) asks the registry for "CUDA": it returns a Baton only
\* when a factory is registered under that name, and with no factory
\* registered it raises an error, never returning a null Baton.
C19_RegistryCreate ==
  /\ (hpc = "returned" => ("CUDA" \in registry /\ channel = "live"))
  /\ ("CUDA" \notin registry =>
        (hpc \in {"create", "null_check", "failed"} /\ channel = "none" /\ pc = "none"))

C19_Witness ==
  /\ "CUDA" \notin registry
  /\ hpc = "failed"

\* C20: construction is fire-and-forget: after the launch the constructor
\* can always complete, whatever the position of the kernel, so it returns
\* with the kernel still queued, also with timeout 0 and no abort().
C20_FireAndForget ==
  hpc \in {"check", "null_check"} => ENABLED CtorStep

C20_Witness ==
  /\ hpc = "returned"
  /\ pc = "queued"
  /\ timeout_ms = 0
  /\ NoAbortYet

\* ---------------------------------------------------------------------------
\* C21. abort() never fails observably: on a channel that has become invalid
\* the abort write is a no-op, it raises no error and changes no state.
C21_AbortNoOpWhenInvalid ==
  [][(channel # "live" /\ abortCalls' # abortCalls)
       => (comm' = comm /\ hostFault' = hostFault)]_vars

\* C22. On an unreachable channel status() exposes a fault outcome distinct
\* from TIMED_OUT and ABORTED: it returns one of these two only when the
\* kernel itself has written it.
C22_FaultDistinct ==
  [][(channel # "live" /\ returned' # returned)
       => \A v \in returned' :
            v \in {TIMED_OUT, ABORTED} => (pc = "done" /\ comm[1] = v)]_vars

\* C23. status() is a non-blocking, non-destructive poll: it can be called in
\* every state of a constructed Baton, whatever the kernel is doing, it
\* returns the current value of the status word, and it leaves both words and
\* the kernel as they were.
C23_StatusPoll ==
  /\ [](hpc = "returned" => ENABLED Status)
  /\ [][(returned' # returned)
          => /\ returned' = {comm[1]}
             /\ comm' = comm
             /\ UNCHANGED <<pc, kernelLocals, now>>]_vars

C23_Witness ==
  /\ returned = {RUNNING}
  /\ comm[1] = RUNNING
  /\ pc = "sleep"
  /\ comm[0] = 1

\* C24. In each poll the abort flag is tested before the timeout: a poll that
\* has read the flag as set writes ABORTED and returns even when the timeout
\* has also elapsed, and TIMED_OUT is written only by a poll that has read
\* the flag as not set.
C24_AbortBeforeTimeout ==
  /\ [][(pc = "test" /\ current_value = 1 /\ pc' # pc)
          => (comm'[1] = ABORTED /\ pc' = "done")]_vars
  /\ [][(pc # "queued" /\ comm'[1] = TIMED_OUT /\ comm[1] # TIMED_OUT)
          => (pc = "clock" /\ current_value # 1)]_vars

C24_Witness ==
  /\ pc = "done"
  /\ current_value = 1
  /\ comm[1] = ABORTED
  /\ timeout_ms > 0
  /\ Expired(now, start, timeout_ns)

\* C25. At every poll a flag value that is nonzero, whether 1 or any other
\* nonzero value, makes the kernel write ABORTED and return.
C25_NonzeroFlagAborts ==
  [][(pc = "test" /\ current_value # 0 /\ pc' # pc)
       => (comm'[1] = ABORTED /\ pc' = "done")]_vars

\* C26. No premature timeout: the kernel writes TIMED_OUT only when the
\* timeout is positive and the time elapsed since its own start, read after
\* RUNNING has been written, strictly exceeds the timeout; with exactly the
\* timeout elapsed it sleeps and polls again.
C26_NoPrematureTimeout ==
  /\ [][(pc # "queued" /\ comm'[1] = TIMED_OUT /\ comm[1] # TIMED_OUT)
          => /\ pc = "clock"
             /\ timeout_ms > 0
             /\ (now - start) > timeout_ms * NsPerMs]_vars
  /\ [][(pc = "clock" /\ pc' # pc /\ (now - start) <= timeout_ms * NsPerMs)
          => (pc' = "sleep" /\ comm' = comm)]_vars
  /\ [][(pc = "timer" /\ pc' # pc) => (comm[1] = RUNNING /\ start' = now)]_vars

C26_Witness ==
  /\ pc = "sleep"
  /\ timeout_ms > 0
  /\ start > 0
  /\ (now - start) = timeout_ms * NsPerMs
  /\ comm[1] = RUNNING

\* C27. An abort() issued before the kernel has started is not lost: the
\* kernel, once scheduled, writes RUNNING, reads the flag as set in its first
\* poll and writes ABORTED without having slept or read the clock.
C27_EarlyAbortNotLost ==
  /\ [](abortBeforeStart
          => /\ pc \notin {"clock", "sleep"}
             /\ sleepsAfterFlag = 0
             /\ pc \in {"timer", "poll", "test"} => comm[1] = RUNNING
             /\ pc = "test" => current_value = 1
             /\ pc = "done" => comm[1] = ABORTED)
  /\ abortBeforeStart ~> (pc = "done" /\ comm[1] = ABORTED)

C27_Witness ==
  /\ abortBeforeStart
  /\ pc = "done"
  /\ comm[1] = ABORTED
  /\ now > 0

\* C28. In every reachable state the status word holds one of the four
\* encoded values 0..3, so status() never returns a value outside the
\* BatonStatus enum.
C28_StatusInEnum ==
  /\ channel = "live" => comm[1] \in {UNKNOWN, RUNNING, TIMED_OUT, ABORTED}
  /\ returned \subseteq {UNKNOWN, RUNNING, TIMED_OUT, ABORTED}

\* C29. Destroying a Baton does not release the kernel: destruction can happen
\* whatever the status is, it stores nothing to the channel (the abort flag
\* included) and leaves the kernel where it was, while the channel is released.
C29_DestroyDoesNotRelease ==
  /\ [](hpc = "returned" => ENABLED Destroy)
  /\ [][(hpc = "returned" /\ hpc' = "destroyed")
          => /\ channel' = "freed"
             /\ comm' = comm
             /\ UNCHANGED <<pc, kernelLocals, now>>]_vars

C29_Witness ==
  /\ hpc = "destroyed"
  /\ channel = "freed"
  /\ NoAbortYet
  /\ comm[0] # 1
  /\ comm[1] = RUNNING
  /\ pc = "sleep"
  /\ sleepsAfterFlag = 0

====
